---- MODULE Spec2Model ----
(***************************************************************************)
(* Model of src/lol.js: the Helios testnet automation bot.                 *)
(*                                                                         *)
(* The master scheduler (scheduleDailyRuns) starts two sub-schedulers      *)
(* (runMainTasks, runTokenDeploy) concurrently on one event loop, awaits   *)
(* both through Promise.all, computes the next session time with          *)
(* Date.setDate(getDate() + 1) and sleeps with setTimeout.                 *)
(*                                                                         *)
(* Time is the wall clock in milliseconds.  A step of the model is one     *)
(* synchronous continuation of the event loop: everything the code runs    *)
(* between two awaits is one action.                                       *)
(***************************************************************************)
EXTENDS Integers, Sequences, FiniteSets, TLC

(* ---------- Schedule Configuration (lol.js 20-35) ---------- *)
MAIN_RUNS_PER_SESSION == 10
MAIN_INTERVAL_HOURS == 1
MAIN_INTERVAL_MINUTES == 5
MAIN_RUN_INTERVAL_MS == (MAIN_INTERVAL_HOURS * 60 + MAIN_INTERVAL_MINUTES) * 60 * 1000

TOKEN_RUNS_PER_SESSION == 3
TOKEN_INTERVAL_HOURS == 1
TOKEN_INTERVAL_MINUTES == 5
TOKEN_RUN_INTERVAL_MS == (TOKEN_INTERVAL_HOURS * 60 + TOKEN_INTERVAL_MINUTES) * 60 * 1000

DELAY_BETWEEN_TASKS_MS == 10000

(* Mutant: task_swapTokens listed before task_claimAndBurn. *)
tasks_Swapped ==
    << "task_deployContract", "task_mintNft", "task_swapTokens",
       "task_claimAndBurn", "task_createMintpadNFT" >>

(* The task list of runMainTasks, in list order (lol.js 263-269). *)
tasks ==
    << "task_deployContract", "task_mintNft", "task_claimAndBurn",
       "task_swapTokens", "task_createMintpadNFT" >>

(* ---------- Date arithmetic ---------- *)
msPerDay == 86400000
msPerHour == 3600000

(* ---------- Bounds of the model ---------- *)
(* Number of daily sessions explored. *)
MaxSessions == 3
(* The task invocations of an execution settle within the millisecond in
   which they were made, except for at most MaxSlowCalls of them, whose
   awaited client calls take SlowCallHours in all. *)
SlowCallHours == 15
MaxSlowCalls == 2
(* Wall-clock reading when the process starts, and the distance from there
   to the host time zone's UTC-offset change, in hours. *)
BootHour == 2
ZoneChangeAfterHours == 12

SlowCallMs == SlowCallHours * msPerHour
BootTime == BootHour * msPerHour
ZoneChangeAt == BootTime + ZoneChangeAfterHours * msPerHour

(* No timer pending. *)
NoTimer == 0 - 1

(* No value read yet. *)
NoValue == 0 - 1

(* No line logged yet: the counts of success lines, failure lines and
   error lines (console.error of the per-task catch). *)
NoLines == [success |-> 0, failure |-> 0, error |-> 0]

VARIABLES
    now,               \* Date.now(): the wall clock, ms
    slowCalls,         \* task invocations during which the clock has moved
    lastStep,          \* the continuation the event loop ran last
    zone,              \* host time zone: "fixed", "forward" (offset +1h at
                       \* ZoneChangeAt) or "back" (offset -1h at ZoneChangeAt)
    masterPc,          \* scheduleDailyRuns: "boot", "await" (Promise.all), "sleep"
    sessions,          \* number of sessions started
    sessionStartTime,  \* lol.js 338
    nextSessionTime,   \* lol.js 356-360
    waitTime,          \* lol.js 364
    masterTimer,       \* deadline of the setTimeout of lol.js 375
    mainPc,            \* runMainTasks: "idle", "task", "pause", "interval", "done"
    mainRun,           \* i of lol.js 271
    mainTask,          \* position in tasks of the loop of lol.js 275
    mainTimer,         \* deadline of the pending setTimeout of runMainTasks
    mainCalls,         \* invocations of each task in this session
    mainRunLog,        \* names of the tasks invoked so far in the current run
    mainSleeps,        \* interval sleeps (lol.js 290) begun in this session
    mainInFlight,      \* task invocations of runMainTasks not yet settled
    mainInvokedAt,     \* clock reading when the current task was invoked
    mainPauses,        \* pauses (lol.js 282) begun in the current run
    tokenPc,           \* runTokenDeploy: "idle", "task", "interval", "done"
    tokenRun,          \* i of lol.js 303
    tokenTimer,        \* deadline of the pending setTimeout of runTokenDeploy
    tokenCalls,        \* invocations of task_createToken in this session
    tokenSleeps,       \* interval sleeps (lol.js 313) begun in this session
    tokenInFlight,     \* invocations of task_createToken not yet settled
    tokenInvokedAt,    \* clock reading when task_createToken was invoked
    restarted,         \* the process was killed and started again
    client,            \* the chain client: "chain" (calls may throw, receipts
                       \* may be reverted) or "mock" (successful receipts only)
    mainAt,            \* await at which the task of runMainTasks stands:
                       \* "none", "allowance", "submit", "receipt", "sleep"
    mainTx,            \* the transaction that await is about
    allowance,         \* task_swapTokens: allowance of lol.js 180
    mainTrace,         \* events of the current task invocation of runMainTasks
    tokenAt,           \* await at which task_createToken stands
    tokenTrace,        \* events of the current invocation of task_createToken
    tokenLines,        \* lines logged by runTokenDeploy's task in this session
    env,               \* process.env: RPC_URL, PRIVATE_KEY, CHAIN_ID
    proc,              \* the process: "env" (before lol.js 11), "check"
                       \* (lol.js 15), "clients" (lol.js 42), "loaded"
                       \* (clients built), "exited"
    RPC_URL,           \* lol.js 11
    PRIV_KEY,          \* lol.js 12
    CHAIN_ID,          \* lol.js 13
    wallet,            \* the clients of lol.js 42-45, or NoClient
    exitCode           \* exit status of the process, NoValue while it runs

masterVars == << masterPc, sessions, sessionStartTime, nextSessionTime, waitTime, masterTimer >>
mainVars == << mainPc, mainRun, mainTask, mainTimer, mainCalls, mainRunLog, mainSleeps, mainInFlight, mainInvokedAt, mainPauses >>
tokenVars == << tokenPc, tokenRun, tokenTimer, tokenCalls, tokenSleeps, tokenInFlight, tokenInvokedAt >>
taskVars == << client, mainAt, mainTx, allowance, mainTrace, tokenAt, tokenTrace, tokenLines >>
procVars == << env, proc, RPC_URL, PRIV_KEY, CHAIN_ID, wallet, exitCode >>
vars == << now, slowCalls, lastStep, zone, masterVars, mainVars, tokenVars, restarted, taskVars, procVars >>

(* ---------- Date: local time of the host ---------- *)
(* UTC offset of the host's zone at instant t. *)
ZoneOffset(t) ==
    IF zone = "fixed" \/ t < ZoneChangeAt THEN 0
    ELSE IF zone = "forward" THEN msPerHour ELSE 0 - msPerHour

(* LocalTime(t) of ECMAScript: the local wall-clock reading at instant t. *)
LocalTime(t) == t + ZoneOffset(t)

(* UTC(l) of ECMAScript: the instant whose local reading is l.  A reading
   that occurs twice (clocks set back) is the earlier instant; a reading
   that is skipped (clocks set forward) is taken with the offset in force
   before the change. *)
UTC(l) ==
    IF zone = "fixed" \/ l < ZoneChangeAt THEN l
    ELSE IF zone = "forward"
         THEN (IF l - msPerHour >= ZoneChangeAt THEN l - msPerHour ELSE l)
         ELSE l + msPerHour

(* new Date(t); d.setDate(d.getDate() + 1); d.getTime()  (lol.js 356-360):
   the same local time of day on the next calendar day. *)
SetDatePlusOne(t) == UTC(LocalTime(t) + msPerDay)

(* setTimeout(cb, delay): a delay below 1 (or above 2^31-1) is taken as 1. *)
TimeoutDelay(delay) ==
    IF delay < 1 \/ delay > 2147483647 THEN 1 ELSE delay

(* Deadline of a timer armed now. *)
Deadline(delay) == now + TimeoutDelay(delay)

(* ---------- env (lol.js 10-18) ---------- *)
(* Longest value of an environment variable considered. *)
MaxEnvLen == 3

(* The characters of the values: a white space and a decimal digit. *)
Chars == {" ", "7"}
WhiteSpace == {" "}
Digits == {"7"}

(* A string is the sequence of its characters. *)
Strings == UNION { [1..n -> Chars] : n \in 0..MaxEnvLen }

(* What reading a variable that is not set gives; no string. *)
undefined == << "undefined" >>

EnvValues == Strings \cup {undefined}

(* Number(...) of a string that is no numeric literal. *)
NaN == 0 - 2

RECURSIVE trimStart(_)
trimStart(s) ==
    IF s # << >> /\ Head(s) \in WhiteSpace THEN trimStart(Tail(s)) ELSE s

RECURSIVE trimEnd(_)
trimEnd(s) ==
    IF s # << >> /\ s[Len(s)] \in WhiteSpace
    THEN trimEnd(SubSeq(s, 1, Len(s) - 1))
    ELSE s

(* Mutant: the value is taken as it is set. *)
trim_Identity(s) == s

(* String.prototype.trim *)
trim(s) == trimEnd(trimStart(s))

(* v?.trim() of lol.js 11-12 *)
OptionalTrim(v) == IF v = undefined THEN undefined ELSE trim(v)

(* !v of lol.js 15 and the left operand of || of lol.js 13: undefined and
   the empty string are falsy, every other string is truthy. *)
Falsy(v) == v = undefined \/ v = << >>

RECURSIVE DecimalValue(_)
DecimalValue(s) ==
    IF s = << >> THEN 0
    ELSE DecimalValue(SubSeq(s, 1, Len(s) - 1)) * 10 + 7

(* Number(s) of a string: white space around the literal is dropped, the
   empty literal is 0, decimal digits are their value, anything else NaN. *)
Number(s) ==
    LET t == trim(s)
    IN  IF \A i \in 1..Len(t) : t[i] \in Digits THEN DecimalValue(t) ELSE NaN

(* Number(process.env.CHAIN_ID || 0) of lol.js 13 *)
ChainId(v) == IF Falsy(v) THEN 0 ELSE Number(v)

(* No client constructed. *)
NoClient == [account |-> undefined, transport |-> undefined, chain |-> NoValue]

(* account, transport, wallet and publicClient of lol.js 42-45 *)
Clients == [account |-> PRIV_KEY, transport |-> RPC_URL, chain |-> CHAIN_ID]

(* An environment with the three variables set. *)
DefaultEnv == [RPC_URL |-> << "7" >>, PRIVATE_KEY |-> << "7" >>, CHAIN_ID |-> << "7" >>]

(* The process has run lol.js 1-45 with DefaultEnv. *)
Loaded ==
    /\ env = DefaultEnv
    /\ proc = "loaded"
    /\ RPC_URL = OptionalTrim(env.RPC_URL)
    /\ PRIV_KEY = OptionalTrim(env.PRIVATE_KEY)
    /\ CHAIN_ID = ChainId(env.CHAIN_ID)
    /\ wallet = Clients
    /\ exitCode = NoValue

(* The module has been loaded and scheduleDailyRuns() of lol.js 379 is
   about to be called; `slow` of the slow invocations are already spent. *)
InitWith(slow) ==
    /\ now = BootTime
    /\ slowCalls = slow
    /\ lastStep = "none"
    /\ zone \in {"fixed", "forward", "back"}
    /\ masterPc = "boot"
    /\ sessions = 0
    /\ sessionStartTime = 0
    /\ nextSessionTime = 0
    /\ waitTime = 0
    /\ masterTimer = NoTimer
    /\ mainPc = "idle"
    /\ mainRun = 0
    /\ mainTask = 0
    /\ mainTimer = NoTimer
    /\ mainCalls = [k \in 1..Len(tasks) |-> 0]
    /\ mainRunLog = << >>
    /\ mainSleeps = 0
    /\ mainInFlight = 0
    /\ mainInvokedAt = 0
    /\ tokenPc = "idle"
    /\ tokenRun = 0
    /\ tokenTimer = NoTimer
    /\ tokenCalls = 0
    /\ tokenSleeps = 0
    /\ tokenInFlight = 0
    /\ tokenInvokedAt = 0
    /\ mainPauses = 0
    /\ restarted = FALSE
    /\ mainAt = "none"
    /\ mainTx = "none"
    /\ allowance = NoValue
    /\ mainTrace = << >>
    /\ tokenAt = "none"
    /\ tokenTrace = << >>
    /\ tokenLines = NoLines

(* The bot runs against the chain. *)
Init == InitWith(0) /\ client = "chain" /\ Loaded

(* ---------- runMainTasks (lol.js 261-294) ---------- *)
(* Mutant: the loop of lol.js 271 written with < instead of <=. *)
MainLoopTest_OffByOne(i) == i < MAIN_RUNS_PER_SESSION

(* Loop test of lol.js 271. *)
MainLoopTest(i) == i <= MAIN_RUNS_PER_SESSION

(* Mutant: the test of lol.js 288 dropped, every run is followed by an
   interval sleep. *)
MainSleepTest_Always(i) == i <= MAIN_RUNS_PER_SESSION

(* Test of lol.js 288: the run is followed by an interval sleep. *)
MainSleepTest(i) == i < MAIN_RUNS_PER_SESSION

(* `await task()` of lol.js 277 for the task at position k of run i: the
   call runs the task up to its first awaited client call. *)
MainInvoke(i, k) ==
    /\ mainPc' = "task"
    /\ mainRun' = i
    /\ mainTask' = k
    /\ mainTimer' = NoTimer
    /\ mainRunLog' = IF k = 1 THEN << tasks[k] >> ELSE Append(mainRunLog, tasks[k])
    /\ mainInFlight' = mainInFlight + 1
    /\ mainInvokedAt' = now
    /\ mainPauses' = IF k = 1 THEN 0 ELSE mainPauses

(* Loop exit, lol.js 293. *)
MainFinish(i) ==
    /\ mainPc' = "done"
    /\ mainRun' = i
    /\ mainTimer' = NoTimer
    /\ UNCHANGED << mainTask, mainCalls, mainRunLog, mainSleeps, mainInFlight, mainInvokedAt, mainPauses >>

(* Top of the loop of lol.js 271 with counter i. *)
MainLoopTop(i) ==
    IF MainLoopTest(i)
    THEN /\ MainInvoke(i, 1)
         /\ mainCalls' = [mainCalls EXCEPT ![1] = @ + 1]
         /\ UNCHANGED mainSleeps
    ELSE MainFinish(i)

(* Mutant: no try/catch around `await task()`: a throwing task rejects the
   promise of runMainTasks and the loop is abandoned. *)
MainSettle_NoCatch(threw) ==
    /\ lastStep' = IF threw THEN "MainTaskThrows" ELSE "MainTaskReturns"
    /\ mainPc' = IF threw THEN "rejected" ELSE "pause"
    /\ mainInFlight' = mainInFlight - 1
    /\ mainTimer' = IF threw THEN NoTimer ELSE Deadline(DELAY_BETWEEN_TASKS_MS)
    /\ mainPauses' = mainPauses + 1
    /\ UNCHANGED << mainRun, mainTask, mainCalls, mainRunLog, mainSleeps, mainInvokedAt >>

(* Mutant: the pause of lol.js 281-282 placed inside the try, after
   `await task()`: a task that threw is not followed by the pause. *)
MainSettle_NoPauseAfterThrow(threw) ==
    /\ lastStep' = IF threw THEN "MainTaskThrows" ELSE "MainTaskReturns"
    /\ mainPc' = "pause"
    /\ mainInFlight' = mainInFlight - 1
    /\ mainTimer' = IF threw THEN now ELSE Deadline(DELAY_BETWEEN_TASKS_MS)
    /\ mainPauses' = IF threw THEN mainPauses ELSE mainPauses + 1
    /\ UNCHANGED << mainRun, mainTask, mainCalls, mainRunLog, mainSleeps, mainInvokedAt >>

(* The awaited task settles: it returns (threw = FALSE) or throws and the
   catch of lol.js 278-280 logs the error (threw = TRUE).  Either way the
   pause of lol.js 281-282 is armed. *)
MainSettle(threw) ==
    /\ lastStep' = IF threw THEN "MainTaskThrows" ELSE "MainTaskReturns"
    /\ mainPc' = "pause"
    /\ mainInFlight' = mainInFlight - 1
    /\ mainTimer' = Deadline(DELAY_BETWEEN_TASKS_MS)
    /\ mainPauses' = mainPauses + 1
    /\ UNCHANGED << mainRun, mainTask, mainCalls, mainRunLog, mainSleeps, mainInvokedAt >>

(* The client calls awaited by the current task have answered. *)
MainAnswered == now = mainInvokedAt \/ now >= mainInvokedAt + SlowCallMs

MainTaskReturns ==
    /\ mainPc = "task"
    /\ MainAnswered
    /\ MainSettle(FALSE)
    /\ UNCHANGED << restarted, taskVars, now, slowCalls, zone, procVars, masterVars, tokenVars >>

MainTaskThrows ==
    /\ mainPc = "task"
    /\ MainAnswered
    /\ MainSettle(TRUE)
    /\ UNCHANGED << restarted, taskVars, now, slowCalls, zone, procVars, masterVars, tokenVars >>

(* After the pause that follows the task at position mainTask
   (lol.js 282-292): the next task of the run, or the end of the run. *)
MainAfterPause ==
    IF mainTask < Len(tasks)
    THEN /\ MainInvoke(mainRun, mainTask + 1)
         /\ mainCalls' = [mainCalls EXCEPT ![mainTask + 1] = @ + 1]
         /\ UNCHANGED mainSleeps
    ELSE IF MainSleepTest(mainRun)
         THEN /\ mainPc' = "interval"
              /\ mainTimer' = Deadline(MAIN_RUN_INTERVAL_MS)
              /\ mainSleeps' = mainSleeps + 1
              /\ UNCHANGED << mainRun, mainTask, mainCalls, mainRunLog, mainInFlight, mainInvokedAt, mainPauses >>
         ELSE MainLoopTop(mainRun + 1)

(* Mutant: the next task of runMainTasks is held back while
   task_createToken is awaiting a client call. *)
MainPauseFires_Serial ==
    /\ mainPc = "pause"
    /\ now >= mainTimer
    /\ tokenPc # "task"
    /\ MainAfterPause
    /\ lastStep' = "MainPauseFires"
    /\ UNCHANGED << restarted, taskVars, now, slowCalls, zone, procVars, masterVars, tokenVars >>

MainPauseFires ==
    /\ mainPc = "pause"
    /\ now >= mainTimer
    /\ MainAfterPause
    /\ lastStep' = "MainPauseFires"
    /\ UNCHANGED << restarted, taskVars, now, slowCalls, zone, procVars, masterVars, tokenVars >>

(* The interval timer of lol.js 290 fires: i++ and the loop test. *)
MainIntervalFires ==
    /\ mainPc = "interval"
    /\ now >= mainTimer
    /\ MainLoopTop(mainRun + 1)
    /\ lastStep' = "MainIntervalFires"
    /\ UNCHANGED << restarted, taskVars, now, slowCalls, zone, procVars, masterVars, tokenVars >>

(* ---------- runTokenDeploy (lol.js 300-317) ---------- *)
(* Mutant: the loop of lol.js 303 written with < instead of <=. *)
TokenLoopTest_OffByOne(i) == i < TOKEN_RUNS_PER_SESSION

(* Loop test of lol.js 303. *)
TokenLoopTest(i) == i <= TOKEN_RUNS_PER_SESSION

TokenSleepTest(i) == i < TOKEN_RUNS_PER_SESSION

(* `await task_createToken()` of lol.js 306 in run i. *)
TokenInvoke(i) ==
    /\ tokenPc' = "task"
    /\ tokenRun' = i
    /\ tokenTimer' = NoTimer
    /\ tokenInFlight' = tokenInFlight + 1
    /\ tokenInvokedAt' = now

TokenFinish(i) ==
    /\ tokenPc' = "done"
    /\ tokenRun' = i
    /\ tokenTimer' = NoTimer

TokenLoopTop(i) ==
    IF TokenLoopTest(i)
    THEN /\ TokenInvoke(i)
         /\ tokenCalls' = tokenCalls + 1
         /\ UNCHANGED tokenSleeps
    ELSE /\ TokenFinish(i)
         /\ UNCHANGED << tokenCalls, tokenSleeps, tokenInFlight, tokenInvokedAt >>

(* task_createToken settles (returns, or throws into the catch of
   lol.js 307-309); then lol.js 311-315: the interval sleep, or i++ and the
   loop test of lol.js 303. *)
TokenSettle(threw) ==
    LET sleep == TokenSleepTest(tokenRun)
        again == ~sleep /\ TokenLoopTest(tokenRun + 1)
    IN  /\ lastStep' = IF threw THEN "TokenTaskThrows" ELSE "TokenTaskReturns"
        /\ tokenPc' = IF sleep THEN "interval" ELSE IF again THEN "task" ELSE "done"
        /\ tokenRun' = IF sleep THEN tokenRun ELSE tokenRun + 1
        /\ tokenTimer' = IF sleep THEN Deadline(TOKEN_RUN_INTERVAL_MS) ELSE NoTimer
        /\ tokenSleeps' = IF sleep THEN tokenSleeps + 1 ELSE tokenSleeps
        /\ tokenCalls' = IF again THEN tokenCalls + 1 ELSE tokenCalls
        /\ tokenInFlight' = IF again THEN tokenInFlight ELSE tokenInFlight - 1
        /\ tokenInvokedAt' = IF again THEN now ELSE tokenInvokedAt

TokenAnswered == now = tokenInvokedAt \/ now >= tokenInvokedAt + SlowCallMs

TokenTaskReturns ==
    /\ tokenPc = "task"
    /\ TokenAnswered
    /\ TokenSettle(FALSE)
    /\ UNCHANGED << restarted, taskVars, now, slowCalls, zone, procVars, masterVars, mainVars >>

TokenTaskThrows ==
    /\ tokenPc = "task"
    /\ TokenAnswered
    /\ TokenSettle(TRUE)
    /\ UNCHANGED << restarted, taskVars, now, slowCalls, zone, procVars, masterVars, mainVars >>

(* Mutant: the loop counters of lol.js 271 and 303 are one shared
   variable (`i` declared without let). *)
TokenIntervalFires_SharedCounter ==
    /\ tokenPc = "interval"
    /\ now >= tokenTimer
    /\ TokenLoopTop(tokenRun + 1)
    /\ mainRun' = tokenRun'
    /\ lastStep' = "TokenIntervalFires"
    /\ UNCHANGED << mainPc, mainTask, mainTimer, mainCalls, mainRunLog, mainSleeps, mainInFlight, mainInvokedAt, mainPauses >>
    /\ UNCHANGED << restarted, taskVars, now, slowCalls, zone, procVars, masterVars >>

TokenIntervalFires ==
    /\ tokenPc = "interval"
    /\ now >= tokenTimer
    /\ TokenLoopTop(tokenRun + 1)
    /\ lastStep' = "TokenIntervalFires"
    /\ UNCHANGED << restarted, taskVars, now, slowCalls, zone, procVars, masterVars, mainVars >>

(* ---------- scheduleDailyRuns (lol.js 328-377) ---------- *)
(* Top of the while loop, lol.js 338-347: the start time is recorded and
   both sub-schedulers are called; each runs synchronously up to its first
   await, so both first tasks are invoked in this step. *)
StartSession ==
    /\ sessionStartTime' = now
    /\ sessions' = sessions + 1
    /\ masterPc' = "await"
    /\ masterTimer' = NoTimer
    /\ UNCHANGED << nextSessionTime, waitTime >>
    /\ IF MainLoopTest(1)
       THEN /\ MainInvoke(1, 1)
            /\ mainCalls' = [k \in 1..Len(tasks) |-> IF k = 1 THEN 1 ELSE 0]
       ELSE /\ mainPc' = "done"
            /\ mainRun' = 1
            /\ mainTimer' = NoTimer
            /\ mainCalls' = [k \in 1..Len(tasks) |-> 0]
            /\ UNCHANGED << mainTask, mainRunLog, mainInFlight, mainInvokedAt, mainPauses >>
    /\ mainSleeps' = 0
    /\ IF TokenLoopTest(1)
       THEN /\ TokenInvoke(1)
            /\ tokenCalls' = 1
       ELSE /\ TokenFinish(1)
            /\ tokenCalls' = 0
            /\ UNCHANGED << tokenInFlight, tokenInvokedAt >>
    /\ tokenSleeps' = 0

(* scheduleDailyRuns() of lol.js 379. *)
Boot ==
    /\ masterPc = "boot"
    /\ StartSession
    /\ lastStep' = "Boot"
    /\ UNCHANGED << restarted, taskVars, now, slowCalls, zone, procVars >>

(* Mutant: only runMainTasks() is awaited; runTokenDeploy() is called
   without await. *)
AllSettled_MainOnly == mainPc = "done"

(* Mutant: Promise.race in place of Promise.all. *)
AllSettled_Race == mainPc = "done" \/ tokenPc = "done"

(* Promise.all of lol.js 343 is fulfilled once both sub-schedulers have
   returned. *)
AllSettled == mainPc = "done" /\ tokenPc = "done"

(* Mutant: the while (true) of lol.js 335 runs its body once; after the
   session scheduleDailyRuns returns. *)
SessionComplete_Once ==
    /\ masterPc = "await"
    /\ AllSettled
    /\ masterPc' = "returned"
    /\ lastStep' = "SessionComplete"
    /\ UNCHANGED << sessions, sessionStartTime, nextSessionTime, waitTime, masterTimer >>
    /\ UNCHANGED << restarted, taskVars, now, slowCalls, zone, procVars, mainVars, tokenVars >>

(* lol.js 349-375: next session time, wait time, and the daily sleep. *)
SessionComplete ==
    /\ masterPc = "await"
    /\ AllSettled
    /\ nextSessionTime' = SetDatePlusOne(sessionStartTime)
    /\ waitTime' = nextSessionTime' - now
    /\ masterTimer' = Deadline(waitTime')
    /\ masterPc' = "sleep"
    /\ UNCHANGED << sessions, sessionStartTime >>
    /\ lastStep' = "SessionComplete"
    /\ UNCHANGED << restarted, taskVars, now, slowCalls, zone, procVars, mainVars, tokenVars >>

(* The timer of lol.js 375 fires and the loop restarts. *)
DailyTimerFires ==
    /\ masterPc = "sleep"
    /\ now >= masterTimer
    /\ sessions < MaxSessions
    /\ StartSession
    /\ lastStep' = "DailyTimerFires"
    /\ UNCHANGED << restarted, taskVars, now, slowCalls, zone, procVars >>

(* ---------- the clock ---------- *)
PendingTimers == {mainTimer, tokenTimer, masterTimer} \ {NoTimer}

(* Awaiting task invocations during which the clock has not moved yet. *)
FreshCalls ==
    (IF mainPc = "task" /\ mainInvokedAt = now THEN 1 ELSE 0)
    + (IF tokenPc = "task" /\ tokenInvokedAt = now THEN 1 ELSE 0)

(* Times at which the client calls awaited now answer, if they are slow. *)
PendingAnswers ==
    (IF mainPc = "task" THEN {mainInvokedAt + SlowCallMs} ELSE {})
    \cup (IF tokenPc = "task" THEN {tokenInvokedAt + SlowCallMs} ELSE {})

(* Time passes up to the next event: a timer deadline or the answer to a
   slow client call.  An awaiting task that has not settled when the clock
   moves is one of the slow invocations.  The event loop is never blocked,
   so a due timer fires before the clock moves on. *)
Advance ==
    /\ slowCalls + FreshCalls <= MaxSlowCalls
    /\ \E t \in PendingTimers \cup PendingAnswers :
          /\ t > now
          /\ \A d \in PendingTimers \cup PendingAnswers : t <= d
          /\ now' = t
    /\ slowCalls' = slowCalls + FreshCalls
    /\ lastStep' = "Advance"
    /\ UNCHANGED << restarted, taskVars, zone, procVars, masterVars, mainVars, tokenVars >>

Next ==
    \/ Boot
    \/ MainTaskReturns
    \/ MainTaskThrows
    \/ MainPauseFires
    \/ MainIntervalFires
    \/ TokenTaskReturns
    \/ TokenTaskThrows
    \/ TokenIntervalFires
    \/ SessionComplete
    \/ DailyTimerFires
    \/ Advance

Spec == Init /\ [][Next]_vars

(* Fairness: every awaited client call eventually settles (the task
   returns or throws), every due timer fires, and time passes. *)
Fairness ==
    /\ WF_vars(MainTaskReturns \/ MainTaskThrows)
    /\ WF_vars(TokenTaskReturns \/ TokenTaskThrows)
    /\ WF_vars(MainPauseFires)
    /\ WF_vars(MainIntervalFires)
    /\ WF_vars(TokenIntervalFires)
    /\ WF_vars(SessionComplete)
    /\ WF_vars(DailyTimerFires)
    /\ WF_vars(Advance)

(* The executions with at most one slow task invocation. *)
LiveInit == InitWith(MaxSlowCalls - 1) /\ client = "chain" /\ Loaded

LiveSpec == LiveInit /\ [][Next]_vars /\ Fairness

(* ---------- an exception outside the per-task catch ---------- *)
(* An exception thrown by a statement of runMainTasks that is not inside
   the try of lol.js 276-280: the statements after the catch (lol.js
   281-282), after the pause (lol.js 285-290) and at the head of the loop
   (lol.js 271-273) run in the continuation that follows the settled task,
   the pause timer and the interval timer.  Nothing catches it, and the
   promise returned by runMainTasks is rejected. *)
MainRejects ==
    /\ \/ mainPc = "task" /\ MainAnswered
       \/ mainPc \in {"pause", "interval"} /\ now >= mainTimer
    /\ mainPc' = "rejected"
    /\ mainTimer' = NoTimer
    /\ mainInFlight' = IF mainPc = "task" THEN mainInFlight - 1 ELSE mainInFlight
    /\ UNCHANGED << mainRun, mainTask, mainCalls, mainRunLog, mainSleeps, mainInvokedAt, mainPauses >>
    /\ lastStep' = "MainRejects"
    /\ UNCHANGED << restarted, taskVars, now, slowCalls, zone, procVars, masterVars, tokenVars >>

(* The same for runTokenDeploy: the statements outside the try of
   lol.js 305-309 are lol.js 304 and 311-313. *)
TokenRejects ==
    /\ \/ tokenPc = "task" /\ TokenAnswered
       \/ tokenPc = "interval" /\ now >= tokenTimer
    /\ tokenPc' = "rejected"
    /\ tokenTimer' = NoTimer
    /\ tokenInFlight' = IF tokenPc = "task" THEN tokenInFlight - 1 ELSE tokenInFlight
    /\ UNCHANGED << tokenRun, tokenCalls, tokenSleeps, tokenInvokedAt >>
    /\ lastStep' = "TokenRejects"
    /\ UNCHANGED << restarted, taskVars, now, slowCalls, zone, procVars, masterVars, mainVars >>

(* Promise.all of lol.js 343 is rejected as soon as one of its promises
   is. *)
AnyRejected == mainPc = "rejected" \/ tokenPc = "rejected"

(* Mutant: the rejection is caught around the await of lol.js 343 and the
   loop body goes on with lol.js 349-375. *)
PromiseAllRejects_Caught ==
    /\ masterPc = "await"
    /\ AnyRejected
    /\ nextSessionTime' = SetDatePlusOne(sessionStartTime)
    /\ waitTime' = nextSessionTime' - now
    /\ masterTimer' = Deadline(waitTime')
    /\ masterPc' = "sleep"
    /\ UNCHANGED << sessions, sessionStartTime >>
    /\ lastStep' = "PromiseAllRejects"
    /\ UNCHANGED << restarted, taskVars, now, slowCalls, zone, procVars, mainVars, tokenVars >>

(* `await Promise.all([...])` of lol.js 343 throws inside
   scheduleDailyRuns, which has no try: the rest of the loop body
   (lol.js 349-375) is skipped, the while loop is left and the promise of
   scheduleDailyRuns() is rejected; lol.js 379 attaches no handler to it.
   The runtime then reports the unhandled rejection and, by default, ends
   the process; where it only warns, the other sub-scheduler runs on to the
   end of its loop.  The runs with the process ended are the prefixes of
   the runs modelled here. *)
PromiseAllRejects ==
    /\ masterPc = "await"
    /\ AnyRejected
    /\ masterPc' = "rejected"
    /\ UNCHANGED << sessions, sessionStartTime, nextSessionTime, waitTime, masterTimer >>
    /\ lastStep' = "PromiseAllRejects"
    /\ UNCHANGED << restarted, taskVars, now, slowCalls, zone, procVars, mainVars, tokenVars >>

FaultNext ==
    \/ Next
    \/ MainRejects
    \/ TokenRejects
    \/ PromiseAllRejects

(* The executions in which every task invocation settles within the
   millisecond in which it was made. *)
FastInit == InitWith(MaxSlowCalls) /\ client = "chain" /\ Loaded

(* The executions in which statements outside the per-task catch may
   throw. *)
FaultSpec == FastInit /\ [][FaultNext]_vars /\ Fairness /\ WF_vars(PromiseAllRejects)

(* ---------- kill and restart ---------- *)
(* Mutant: the state of the killed process is saved and the new process
   takes it up. *)
Restart_Resume ==
    /\ ~restarted
    /\ masterPc # "boot"
    /\ restarted' = TRUE
    /\ lastStep' = "Restart"
    /\ UNCHANGED << taskVars, now, slowCalls, zone, procVars, masterVars, mainVars, tokenVars >>

(* The process is killed and started again: the program keeps nothing
   outside its memory (no file is written in lol.js), so the new process is
   in the state of a first start, at the wall-clock time of the restart. *)
Restart ==
    /\ ~restarted
    /\ masterPc # "boot"
    /\ restarted' = TRUE
    /\ lastStep' = "Restart"
    /\ masterPc' = "boot"
    /\ sessions' = 0
    /\ sessionStartTime' = 0
    /\ nextSessionTime' = 0
    /\ waitTime' = 0
    /\ masterTimer' = NoTimer
    /\ mainPc' = "idle"
    /\ mainRun' = 0
    /\ mainTask' = 0
    /\ mainTimer' = NoTimer
    /\ mainCalls' = [k \in 1..Len(tasks) |-> 0]
    /\ mainRunLog' = << >>
    /\ mainSleeps' = 0
    /\ mainInFlight' = 0
    /\ mainInvokedAt' = 0
    /\ mainPauses' = 0
    /\ tokenPc' = "idle"
    /\ tokenRun' = 0
    /\ tokenTimer' = NoTimer
    /\ tokenCalls' = 0
    /\ tokenSleeps' = 0
    /\ tokenInFlight' = 0
    /\ tokenInvokedAt' = 0
    /\ UNCHANGED << taskVars, now, slowCalls, zone, procVars >>

RestartNext ==
    \/ Next
    \/ Restart

(* The executions in which the process is killed and restarted at most
   once, at any point after its start; every task invocation settles
   within the millisecond in which it was made. *)
RestartSpec == FastInit /\ [][RestartNext]_vars

(* ---------- the task functions (lol.js 50-245) ---------- *)
(* Pause between the sub-tasks of task_claimAndBurn (lol.js 125). *)
DELAY_BETWEEN_SUBTASKS_MS == 5000

(* Mutant: the burn is sent before the approval. *)
subtasks_BurnBeforeApprove == << "claim ORE", "claim MLUNARI", "burn ORE", "approve ORE" >>

(* The four sendSubtask calls of task_claimAndBurn, in program order
   (lol.js 127-150). *)
subtasks == << "claim ORE", "claim MLUNARI", "approve ORE", "burn ORE" >>

(* amountInWei of lol.js 178, parseUnits("1", 18), counted in units of
   10^9 wei so that it fits the checker's integers. *)
amountIn == 1000000000

(* Values readContract may return for the allowance (lol.js 180), in the
   same unit: none, just below, exactly and above the swap amount. *)
Allowances == {0, amountIn - 1, amountIn, amountIn + 1}

(* receipt.status values waitForTransactionReceipt resolves with. *)
Statuses == IF client = "mock" THEN {"success"} ELSE {"success", "reverted"}

(* One event of a task invocation: a client call made ("read", "submit",
   "wait"), a receipt arrived ("receipt", with its status), a result line
   logged ("ok" for a line with the check mark, "failed" for a line with
   the cross), a sub-task pause begun ("sleep"), an awaited client call
   that threw ("throw"), the console.error of the per-task catch
   ("error"). *)
Ev(op, tx, status) == << op, tx, status >>

(* The transaction (or read) of the first client call a task function
   awaits: lol.js 56, 87, 108, 129/155, 180, 236. *)
FirstTx(fn) ==
    CASE fn = "task_deployContract" -> "deploy"
      [] fn = "task_createToken" -> "createErc20"
      [] fn = "task_mintNft" -> "mint"
      [] fn = "task_claimAndBurn" -> subtasks[1]
      [] fn = "task_swapTokens" -> "allowance"
      [] fn = "task_createMintpadNFT" -> "mintpad"

(* Mutant: lol.js 181 written with <= instead of <. *)
NeedsApproval_OrEqual(a) == a <= amountIn

(* Test of lol.js 181. *)
NeedsApproval(a) == a < amountIn

(* The result line logged once the receipt of tx has arrived: lol.js 66-70,
   97, 116, 161, 209, 244 choose the line by receipt.status; lol.js 190-191
   drop the approval's receipt and log the check mark. *)
ReceiptLine(tx, status) ==
    IF tx = "approve" THEN "ok"
    ELSE IF status = "success" THEN "ok" ELSE "failed"

(* Position of a sub-task of task_claimAndBurn. *)
SubtaskNo(tx) == CHOOSE n \in 1..Len(subtasks) : subtasks[n] = tx

(* What a task function does after the result line of tx: "sleep" (the
   pause after sub-tasks 1 to 3, lol.js 130, 135, 143), "swap" (the swap
   after the approval, lol.js 196-206) or "return". *)
AfterReceipt(fn, tx) ==
    IF fn = "task_claimAndBurn" /\ SubtaskNo(tx) < Len(subtasks) THEN "sleep"
    ELSE IF fn = "task_swapTokens" /\ tx = "approve" THEN "swap"
    ELSE "return"

(* ---------- runMainTasks with the steps of its tasks ---------- *)
mainSched == << mainPc, mainRun, mainTask, mainCalls, mainRunLog, mainSleeps, mainInFlight, mainInvokedAt, mainPauses >>
mainTaskVars == << mainAt, mainTx, allowance, mainTrace >>
tokenTaskVars == << tokenAt, tokenTrace, tokenLines >>

(* tasks[k] has been called and has run up to its first await. *)
MainBegin(k) ==
    /\ mainAt' = IF tasks[k] = "task_swapTokens" THEN "allowance" ELSE "submit"
    /\ mainTx' = FirstTx(tasks[k])
    /\ allowance' = NoValue
    /\ mainTrace' = << Ev(IF tasks[k] = "task_swapTokens" THEN "read" ELSE "submit",
                          FirstTx(tasks[k]), "-") >>

(* After a step of the loop of runMainTasks: a task has been invoked, or
   the sub-scheduler sleeps or is done. *)
MainEnter == IF mainPc' = "task" THEN MainBegin(mainTask') ELSE UNCHANGED mainTaskVars

(* The task function returns (threw = FALSE) or throws (threw = TRUE) with
   the events `trace`; then the continuation of runMainTasks, lol.js
   278-282. *)
MainTaskEnds(threw, trace) ==
    /\ MainSettle(threw)
    /\ mainAt' = "none"
    /\ mainTrace' = IF threw THEN trace \o << Ev("error", tasks[mainTask], "-") >> ELSE trace
    /\ UNCHANGED << mainTx, allowance >>

(* readContract of lol.js 180 answers with the allowance a; lol.js 181-206:
   the approval is submitted, or the swap is. *)
MainAllowanceRead ==
    /\ mainPc = "task"
    /\ mainAt = "allowance"
    /\ \E a \in Allowances :
          /\ allowance' = a
          /\ mainTx' = IF NeedsApproval(a) THEN "approve" ELSE "swap"
    /\ mainAt' = "submit"
    /\ mainTrace' = Append(mainTrace, Ev("submit", mainTx', "-"))
    /\ lastStep' = "MainAllowanceRead"
    /\ UNCHANGED << mainSched, mainTimer, tokenTaskVars >>
    /\ UNCHANGED << restarted, client, now, slowCalls, zone, procVars, masterVars, tokenVars >>

(* The submission answers with the transaction hash, and
   waitForTransactionReceipt is called with that hash: lol.js 56-64,
   108-115, 155-160, 183-190, 200-208, 236-243. *)
MainSubmitted ==
    /\ mainPc = "task"
    /\ mainAt = "submit"
    /\ mainAt' = "receipt"
    /\ mainTrace' = Append(mainTrace, Ev("wait", mainTx, "-"))
    /\ lastStep' = "MainSubmitted"
    /\ UNCHANGED << mainSched, mainTimer, mainTx, allowance, tokenTaskVars >>
    /\ UNCHANGED << restarted, client, now, slowCalls, zone, procVars, masterVars, tokenVars >>

(* The receipt arrives: the result line is logged, then the task function
   goes on to its next await or returns. *)
MainReceipt ==
    /\ mainPc = "task"
    /\ mainAt = "receipt"
    /\ \E status \in Statuses :
          LET logged == mainTrace \o << Ev("receipt", mainTx, status),
                                        Ev(ReceiptLine(mainTx, status), mainTx, "-") >>
              then == AfterReceipt(tasks[mainTask], mainTx)
          IN  CASE then = "sleep" ->
                     /\ mainAt' = "sleep"
                     /\ mainTimer' = Deadline(DELAY_BETWEEN_SUBTASKS_MS)
                     /\ mainTrace' = Append(logged, Ev("sleep", mainTx, "-"))
                     /\ lastStep' = "MainReceipt"
                     /\ UNCHANGED << mainSched, mainTx, allowance >>
                [] then = "swap" ->
                     /\ mainAt' = "submit"
                     /\ mainTx' = "swap"
                     /\ mainTrace' = Append(logged, Ev("submit", "swap", "-"))
                     /\ lastStep' = "MainReceipt"
                     /\ UNCHANGED << mainSched, mainTimer, allowance >>
                [] then = "return" -> MainTaskEnds(FALSE, logged)
    /\ UNCHANGED tokenTaskVars
    /\ UNCHANGED << restarted, client, now, slowCalls, zone, procVars, masterVars, tokenVars >>

(* The pause of lol.js 130, 135, 143 is over: the next sendSubtask. *)
MainSubtaskSleepFires ==
    /\ mainPc = "task"
    /\ mainAt = "sleep"
    /\ now >= mainTimer
    /\ mainTimer' = NoTimer
    /\ mainAt' = "submit"
    /\ mainTx' = subtasks[SubtaskNo(mainTx) + 1]
    /\ mainTrace' = Append(mainTrace, Ev("submit", mainTx', "-"))
    /\ lastStep' = "MainSubtaskSleepFires"
    /\ UNCHANGED << mainSched, allowance, tokenTaskVars >>
    /\ UNCHANGED << restarted, client, now, slowCalls, zone, procVars, masterVars, tokenVars >>

(* The awaited client call (read, submission or wait for the receipt)
   throws: no task function has a try, so the task function throws, into
   the catch of lol.js 278-280. *)
MainCallThrows ==
    /\ client = "chain"
    /\ mainPc = "task"
    /\ mainAt \in {"allowance", "submit", "receipt"}
    /\ MainTaskEnds(TRUE, Append(mainTrace, Ev("throw", mainTx, mainAt)))
    /\ UNCHANGED tokenTaskVars
    /\ UNCHANGED << restarted, client, now, slowCalls, zone, procVars, masterVars, tokenVars >>

(* The pause timer of lol.js 282 fires. *)
MainNextTask ==
    /\ mainPc = "pause"
    /\ now >= mainTimer
    /\ MainAfterPause
    /\ MainEnter
    /\ lastStep' = "MainPauseFires"
    /\ UNCHANGED tokenTaskVars
    /\ UNCHANGED << restarted, client, now, slowCalls, zone, procVars, masterVars, tokenVars >>

(* The interval timer of lol.js 290 fires. *)
MainNextRun ==
    /\ mainPc = "interval"
    /\ now >= mainTimer
    /\ MainLoopTop(mainRun + 1)
    /\ MainEnter
    /\ lastStep' = "MainIntervalFires"
    /\ UNCHANGED tokenTaskVars
    /\ UNCHANGED << restarted, client, now, slowCalls, zone, procVars, masterVars, tokenVars >>

(* ---------- runTokenDeploy with the steps of task_createToken ---------- *)
(* task_createToken has been called and has run up to lol.js 87. *)
TokenBegin ==
    /\ tokenAt' = "submit"
    /\ tokenTrace' = << Ev("submit", FirstTx("task_createToken"), "-") >>

(* One more line of kind `line` logged for runTokenDeploy's task. *)
Logged(lines, line) == [lines EXCEPT ![line] = @ + 1]

Line(l) == IF l = "ok" THEN "success" ELSE "failure"

(* task_createToken returns or throws with the events `trace`; then the
   continuation of runTokenDeploy, lol.js 307-315. *)
TokenTaskEnds(threw, trace) ==
    /\ TokenSettle(threw)
    /\ IF tokenPc' = "task"
       THEN TokenBegin
       ELSE /\ tokenAt' = "none"
            /\ tokenTrace' = IF threw THEN Append(trace, Ev("error", "task_createToken", "-"))
                             ELSE trace

(* writeContract of lol.js 87 answers with the hash; lol.js 95-96. *)
TokenSubmitted ==
    /\ tokenPc = "task"
    /\ tokenAt = "submit"
    /\ tokenAt' = "receipt"
    /\ tokenTrace' = Append(tokenTrace, Ev("wait", "createErc20", "-"))
    /\ lastStep' = "TokenSubmitted"
    /\ UNCHANGED << tokenVars, tokenLines, mainTaskVars >>
    /\ UNCHANGED << restarted, client, now, slowCalls, zone, procVars, masterVars, mainVars >>

(* The receipt arrives: lol.js 97, and task_createToken returns. *)
TokenReceipt ==
    /\ tokenPc = "task"
    /\ tokenAt = "receipt"
    /\ \E status \in Statuses :
          LET line == ReceiptLine("createErc20", status)
          IN  /\ tokenLines' = Logged(tokenLines, Line(line))
              /\ TokenTaskEnds(FALSE, tokenTrace \o << Ev("receipt", "createErc20", status),
                                                       Ev(line, "createErc20", "-") >>)
    /\ UNCHANGED mainTaskVars
    /\ UNCHANGED << restarted, client, now, slowCalls, zone, procVars, masterVars, mainVars >>

(* writeContract or waitForTransactionReceipt throws: task_createToken
   throws into the catch of lol.js 307-309. *)
TokenCallThrows ==
    /\ client = "chain"
    /\ tokenPc = "task"
    /\ tokenAt \in {"submit", "receipt"}
    /\ tokenLines' = Logged(tokenLines, "error")
    /\ TokenTaskEnds(TRUE, Append(tokenTrace, Ev("throw", "createErc20", tokenAt)))
    /\ UNCHANGED mainTaskVars
    /\ UNCHANGED << restarted, client, now, slowCalls, zone, procVars, masterVars, mainVars >>

(* The interval timer of lol.js 313 fires. *)
TokenNextRun ==
    /\ tokenPc = "interval"
    /\ now >= tokenTimer
    /\ TokenLoopTop(tokenRun + 1)
    /\ IF tokenPc' = "task" THEN TokenBegin ELSE UNCHANGED << tokenAt, tokenTrace >>
    /\ lastStep' = "TokenIntervalFires"
    /\ UNCHANGED << tokenLines, mainTaskVars >>
    /\ UNCHANGED << restarted, client, now, slowCalls, zone, procVars, masterVars, mainVars >>

(* ---------- scheduleDailyRuns with the steps of the tasks ---------- *)
(* Time passes up to the next timer deadline.  Here every client call
   answers (or throws) within the millisecond in which it was made, so the
   clock stands still while a task awaits one. *)
TimePasses ==
    /\ mainPc = "task" => mainAt = "sleep"
    /\ tokenPc # "task"
    /\ \E t \in PendingTimers :
          /\ t > now
          /\ \A d \in PendingTimers : t <= d
          /\ now' = t
    /\ lastStep' = "Advance"
    /\ UNCHANGED << restarted, taskVars, slowCalls, zone, procVars, masterVars, mainVars, tokenVars >>

(* The head of the while loop (lol.js 338-347), the first task of
   runMainTasks run up to its first await. *)
StartMainTasks ==
    /\ StartSession
    /\ MainEnter
    /\ UNCHANGED tokenTaskVars

(* scheduleDailyRuns() of lol.js 379. *)
BootTasks ==
    /\ masterPc = "boot"
    /\ StartMainTasks
    /\ lastStep' = "Boot"
    /\ UNCHANGED << restarted, client, now, slowCalls, zone, procVars >>

TaskNext ==
    \/ BootTasks
    \/ MainAllowanceRead
    \/ MainSubmitted
    \/ MainReceipt
    \/ MainSubtaskSleepFires
    \/ MainCallThrows
    \/ MainNextTask
    \/ MainNextRun
    \/ TokenTaskReturns
    \/ TokenTaskThrows
    \/ TokenIntervalFires
    \/ SessionComplete
    \/ TimePasses

(* The bot against the chain. *)
TaskInit == InitWith(0) /\ client = "chain" /\ Loaded

(* The first daily session, up to the daily sleep, with the task
   functions of runMainTasks taken await by await; task_createToken
   settles in one step. *)
TaskSpec == TaskInit /\ [][TaskNext]_vars

(* The head of the while loop (lol.js 338-347), task_createToken run up to
   its first await. *)
StartTokenTask ==
    /\ StartSession
    /\ IF tokenPc' = "task" THEN TokenBegin ELSE UNCHANGED << tokenAt, tokenTrace >>
    /\ tokenLines' = NoLines
    /\ UNCHANGED mainTaskVars

BootToken ==
    /\ masterPc = "boot"
    /\ StartTokenTask
    /\ lastStep' = "Boot"
    /\ UNCHANGED << restarted, client, now, slowCalls, zone, procVars >>

DailyTimerToken ==
    /\ masterPc = "sleep"
    /\ now >= masterTimer
    /\ sessions < MaxSessions
    /\ StartTokenTask
    /\ lastStep' = "DailyTimerFires"
    /\ UNCHANGED << restarted, client, now, slowCalls, zone, procVars >>

TokenNext ==
    \/ BootToken
    \/ MainTaskReturns
    \/ MainTaskThrows
    \/ MainPauseFires
    \/ MainIntervalFires
    \/ TokenSubmitted
    \/ TokenReceipt
    \/ TokenCallThrows
    \/ TokenNextRun
    \/ SessionComplete
    \/ DailyTimerToken
    \/ TimePasses

(* The bot against the chain, or against a mock client that answers every
   call with a successful receipt. *)
TokenInit == InitWith(0) /\ client \in {"chain", "mock"} /\ Loaded

(* The program with task_createToken taken await by await; the tasks of
   runMainTasks settle in one step. *)
TokenSpec == TokenInit /\ [][TokenNext]_vars

(* ---------- the module is loaded (lol.js 1-45, 379) ---------- *)
(* What the steps of the module's top level leave alone. *)
programVars == << restarted, taskVars, now, slowCalls, zone, masterVars, mainVars, tokenVars >>

(* lol.js 11-13: the three constants are read from process.env. *)
ReadEnv ==
    /\ proc = "env"
    /\ RPC_URL' = OptionalTrim(env.RPC_URL)
    /\ PRIV_KEY' = OptionalTrim(env.PRIVATE_KEY)
    /\ CHAIN_ID' = ChainId(env.CHAIN_ID)
    /\ proc' = "check"
    /\ lastStep' = "ReadEnv"
    /\ UNCHANGED << env, wallet, exitCode, programVars >>

(* lol.js 15-18: without an RPC_URL or a PRIV_KEY the process logs the
   error and exits with status 1; process.exit does not return. *)
CheckEnv ==
    /\ proc = "check"
    /\ IF Falsy(RPC_URL) \/ Falsy(PRIV_KEY)
       THEN /\ proc' = "exited"
            /\ exitCode' = 1
       ELSE /\ proc' = "clients"
            /\ UNCHANGED exitCode
    /\ lastStep' = "CheckEnv"
    /\ UNCHANGED << env, RPC_URL, PRIV_KEY, CHAIN_ID, wallet, programVars >>

(* lol.js 42-45: the account, the transport and the two clients. *)
BuildClients ==
    /\ proc = "clients"
    /\ wallet' = Clients
    /\ proc' = "loaded"
    /\ lastStep' = "BuildClients"
    /\ UNCHANGED << env, RPC_URL, PRIV_KEY, CHAIN_ID, exitCode, programVars >>

(* lol.js 42: privateKeyToAccount throws on a key the library does not
   accept; the exception is uncaught at the module's top level and the
   process ends with status 1. *)
BuildClientsThrows ==
    /\ proc = "clients"
    /\ proc' = "exited"
    /\ exitCode' = 1
    /\ lastStep' = "BuildClientsThrows"
    /\ UNCHANGED << env, RPC_URL, PRIV_KEY, CHAIN_ID, wallet, programVars >>

(* lol.js 379, reached when the clients are built. *)
BootLoaded ==
    /\ proc = "loaded"
    /\ Boot

(* The top level of the module, statement by statement, up to the first
   await of scheduleDailyRuns(). *)
LoadNext ==
    \/ ReadEnv
    \/ CheckEnv
    \/ BuildClients
    \/ BuildClientsThrows
    \/ BootLoaded

(* The process starts with any values, or none, of the three variables. *)
LoadInit ==
    /\ InitWith(MaxSlowCalls)
    /\ client = "chain"
    /\ env \in [RPC_URL : EnvValues, PRIVATE_KEY : EnvValues, CHAIN_ID : EnvValues]
    /\ proc = "env"
    /\ RPC_URL = undefined
    /\ PRIV_KEY = undefined
    /\ CHAIN_ID = NoValue
    /\ wallet = NoClient
    /\ exitCode = NoValue

LoadSpec == LoadInit /\ [][LoadNext]_vars

(* ======================= Properties ======================= *)
Max0(x) == IF x > 0 THEN x ELSE 0

(* C1: a sub-scheduler that has reached its terminal state has invoked
   each of its tasks exactly its configured number of runs (10 for each of
   the five main tasks, 3 for task_createToken), whichever invocations
   threw, and no task is ever invoked more often than that. *)
C1_ExactRunCounts ==
    /\ \A k \in 1..Len(tasks) : mainCalls[k] <= MAIN_RUNS_PER_SESSION
    /\ tokenCalls <= TOKEN_RUNS_PER_SESSION
    /\ mainPc = "done" => \A k \in 1..Len(tasks) : mainCalls[k] = MAIN_RUNS_PER_SESSION
    /\ tokenPc = "done" => tokenCalls = TOKEN_RUNS_PER_SESSION

C1_Witness ==
    /\ mainPc = "done"
    /\ tokenPc = "done"
    /\ mainCalls[Len(tasks)] = MAIN_RUNS_PER_SESSION
    /\ tokenCalls = TOKEN_RUNS_PER_SESSION

(* C2: a task that throws does not stop its sub-scheduler.  The step in
   which a task of runMainTasks throws arms the pause that precedes the
   next task, with the run and task position unchanged, and the step in
   which task_createToken throws arms the interval sleep (or ends the loop
   after the last run); and from every throw the sub-scheduler goes on to
   its terminal state, where every task has been invoked in all of its
   runs. *)
C2_ThrowDoesNotStop ==
    /\ [][ ( (mainPc = "task" /\ lastStep' = "MainTaskThrows") =>
                ( /\ mainPc' = "pause"
                  /\ mainTimer' = now + DELAY_BETWEEN_TASKS_MS
                  /\ mainRun' = mainRun
                  /\ mainTask' = mainTask ) )
           /\
           ( (tokenPc = "task" /\ lastStep' = "TokenTaskThrows") =>
                ( /\ tokenPc' = IF tokenRun < TOKEN_RUNS_PER_SESSION THEN "interval" ELSE "done"
                  /\ (tokenRun < TOKEN_RUNS_PER_SESSION =>
                         (tokenRun' = tokenRun /\ tokenTimer' = now + TOKEN_RUN_INTERVAL_MS)) ) )
       ]_vars
    /\ (lastStep = "MainTaskThrows")
          ~> ( /\ mainPc = "done"
               /\ \A j \in 1..Len(tasks) : mainCalls[j] = MAIN_RUNS_PER_SESSION )
    /\ (lastStep = "TokenTaskThrows")
          ~> (tokenPc = "done" /\ tokenCalls = TOKEN_RUNS_PER_SESSION)

(* A task in the middle of a run has thrown, and so has task_createToken
   in an earlier run of the same session. *)
C2_Witness ==
    /\ lastStep = "MainTaskThrows"
    /\ mainRun = 2
    /\ mainTask = 3
    /\ tokenPc = "interval"

(* C3: when the daily sleep is armed, the wait time is
   max(0, nextSessionTime - now) and is not negative. *)
C3_WaitIsClamped ==
    lastStep = "SessionComplete" =>
        /\ waitTime = Max0(nextSessionTime - now)
        /\ waitTime >= 0

(* C4: the next session time is exactly 24 hours after the recorded start
   of the session that just finished. *)
C4_NextIsStartPlus24h ==
    lastStep = "SessionComplete" => nextSessionTime = sessionStartTime + msPerDay

(* C5: the master scheduler computes the next session time, begins the
   daily sleep and starts a new session only when both sub-schedulers of
   the current session have reached their terminal state; while it sleeps
   no sub-scheduler is running. *)
C5_WaitsForBoth ==
    [][ /\ ( \/ nextSessionTime' # nextSessionTime
             \/ waitTime' # waitTime
             \/ masterPc' = "sleep"
             \/ (sessions' # sessions /\ sessions > 0) )
          => (mainPc = "done" /\ tokenPc = "done" /\ mainInFlight + tokenInFlight = 0)
        /\ masterPc' = "sleep" => (mainPc' = "done" /\ tokenPc' = "done")
      ]_vars

C5_Witness ==
    /\ sessions = 2
    /\ lastStep = "DailyTimerFires"

(* C6: the master scheduler repeats: when every task invocation settles
   and every timer fires, each session start is followed by the next one
   (up to the MaxSessions sessions explored), and before that the master
   loop is never without a next step. *)
C6_RepeatsForever ==
    /\ \A n \in 1..(MaxSessions - 1) : (sessions = n) ~> (sessions = n + 1)
    /\ [](sessions < MaxSessions => ENABLED Next)
    /\ [](masterPc \in {"boot", "await", "sleep"})

C6_Witness ==
    /\ sessions = MaxSessions
    /\ masterPc = "await"
    /\ lastStep = "DailyTimerFires"

(* C7: a new session starts at the same local wall-clock time as the
   previous one, one calendar day later. *)
C7_SameTimeNextDay ==
    [][ (sessions >= 1 /\ sessions' = sessions + 1)
          => LocalTime(sessionStartTime') = LocalTime(sessionStartTime) + msPerDay
      ]_vars

(* C8: runMainTasks is sequential and in list order.  At most one task
   invocation is in progress; the tasks invoked so far in the current run
   are a prefix of deploy contract, mint NFT, claim-and-burn, swap, create
   Mintpad NFT; and a task is invoked for the i-th time only when every
   task before it has been invoked i times and every task after it i-1
   times, so that run i+1 begins after all of run i. *)
C8_ListOrder ==
    << "task_deployContract", "task_mintNft", "task_claimAndBurn",
       "task_swapTokens", "task_createMintpadNFT" >>

C8_SequentialInOrder ==
    /\ mainInFlight = (IF mainPc = "task" THEN 1 ELSE 0)
    /\ mainPc \in {"task", "pause"} =>
          /\ mainRunLog = SubSeq(C8_ListOrder, 1, mainTask)
          /\ \A j \in 1..Len(C8_ListOrder) :
                mainCalls[j] = IF j <= mainTask THEN mainRun ELSE mainRun - 1
    /\ mainPc \in {"interval", "done"} =>
          /\ mainRunLog = C8_ListOrder
          /\ \A j, k \in 1..Len(C8_ListOrder) : mainCalls[j] = mainCalls[k]

C8_Witness ==
    /\ mainPc = "task"
    /\ mainRun = 2
    /\ mainTask = 4
    /\ lastStep = "MainPauseFires"

(* C9: a sub-scheduler sleeps its interval after every run but the last.
   During run i it has begun i - 1 interval sleeps; the sleep after run
   i < N is armed for exactly the interval; and in its terminal state it
   has begun N - 1 sleeps, none after run N. *)
C9_SleepsBetweenRuns ==
    /\ mainPc \in {"task", "pause"} => mainSleeps = mainRun - 1
    /\ mainPc = "interval" => (mainSleeps = mainRun /\ mainRun < MAIN_RUNS_PER_SESSION)
    /\ (mainPc = "interval" /\ lastStep = "MainPauseFires")
          => mainTimer = now + MAIN_RUN_INTERVAL_MS
    /\ mainPc = "done" => mainSleeps = MAIN_RUNS_PER_SESSION - 1
    /\ tokenPc = "task" => tokenSleeps = tokenRun - 1
    /\ tokenPc = "interval" => (tokenSleeps = tokenRun /\ tokenRun < TOKEN_RUNS_PER_SESSION)
    /\ (tokenPc = "interval" /\ lastStep \in {"TokenTaskReturns", "TokenTaskThrows"})
          => tokenTimer = now + TOKEN_RUN_INTERVAL_MS
    /\ tokenPc = "done" => tokenSleeps = TOKEN_RUNS_PER_SESSION - 1

C9_Witness ==
    /\ mainPc = "done"
    /\ mainSleeps = MAIN_RUNS_PER_SESSION - 1
    /\ tokenPc = "done"
    /\ tokenSleeps = TOKEN_RUNS_PER_SESSION - 1
    /\ lastStep = "MainPauseFires"

(* C10: the sub-schedulers progress independently.  Whatever the other
   sub-scheduler is doing, a task whose client calls have answered can
   settle, and a sub-scheduler whose timer is due can take its next step; and the session is complete
   only when both are done. *)
C10_Independent ==
    /\ (mainPc = "task" /\ MainAnswered) => (ENABLED MainTaskReturns /\ ENABLED MainTaskThrows)
    /\ (mainPc = "pause" /\ now >= mainTimer) => ENABLED MainPauseFires
    /\ (mainPc = "interval" /\ now >= mainTimer) => ENABLED MainIntervalFires
    /\ (tokenPc = "task" /\ TokenAnswered) => (ENABLED TokenTaskReturns /\ ENABLED TokenTaskThrows)
    /\ (tokenPc = "interval" /\ now >= tokenTimer) => ENABLED TokenIntervalFires
    /\ ENABLED SessionComplete <=> (masterPc = "await" /\ mainPc = "done" /\ tokenPc = "done")

(* runMainTasks has finished all of its runs while task_createToken is
   still awaiting a client call. *)
C10_Witness ==
    /\ mainPc = "done"
    /\ tokenPc = "task"
    /\ masterPc = "await"

(* runTokenDeploy has finished while a task of runMainTasks is awaiting a
   client call, and a task of runMainTasks starts while task_createToken
   is awaiting one. *)
C10_TokenFirst == tokenPc = "done" /\ mainPc = "task" /\ mainRun < MAIN_RUNS_PER_SESSION

C10_StartsDuringAwait == lastStep = "MainPauseFires" /\ mainPc = "task" /\ tokenPc = "task"

(* C11: once the promise of a sub-scheduler is rejected, the daily cycle
   is over: the rejection reaches scheduleDailyRuns, whose promise is
   rejected in turn; from the rejection of the sub-scheduler on, the
   master computes no next-session time and no wait time, arms no daily
   timer, starts no session and never sleeps or awaits a session again. *)
C11_RejectionEndsCycle ==
    /\ [][ (AnyRejected \/ AnyRejected')
           => /\ UNCHANGED << sessions, sessionStartTime, nextSessionTime, waitTime, masterTimer >>
              /\ masterPc' \in {"await", "rejected"}
              /\ masterTimer' = NoTimer
              /\ AnyRejected' ]_vars
    /\ [][ masterPc = "rejected" => masterPc' = "rejected" ]_vars
    /\ AnyRejected ~> (masterPc = "rejected")

C11_Witness ==
    /\ masterPc = "rejected"
    /\ tokenPc = "rejected"
    /\ mainPc = "interval"
    /\ sessions = 2

(* ---------- the events of a task invocation ---------- *)
Has(trace, e) == \E p \in 1..Len(trace) : trace[p] = e

(* The invocation has ended and it threw: its last event is the
   console.error of the per-task catch. *)
Threw(trace) == Len(trace) > 0 /\ trace[Len(trace)][1] = "error"

(* The transactions submitted, in the order of their submission. *)
Submitted(trace) ==
    LET subs == SelectSeq(trace, LAMBDA e : e[1] = "submit")
    IN  [n \in 1..Len(subs) |-> subs[n][2]]

(* The current task of runMainTasks has ended (returned or thrown). *)
MainTaskEnded == mainAt = "none" /\ Len(mainTrace) > 0

(* C12: in every task invocation of runMainTasks, a receipt whose status
   is not 'success' is followed by the failure line of its transaction, the
   step that handles it does not throw, and the transaction is not
   submitted again; and an invocation that threw ended with an awaited
   client call (read, submission or wait for a receipt) that threw. *)
C12_FailureLoggedNoThrow ==
    /\ \A p \in 1..Len(mainTrace) :
          (mainTrace[p][1] = "receipt" /\ mainTrace[p][3] # "success")
          => /\ p < Len(mainTrace)
             /\ mainTrace[p + 1] = Ev("failed", mainTrace[p][2], "-")
             /\ (p + 1 = Len(mainTrace) => lastStep # "MainTaskThrows")
             /\ \A q \in (p + 1)..Len(mainTrace) :
                   mainTrace[q] # Ev("submit", mainTrace[p][2], "-")
    /\ Threw(mainTrace)
       => /\ Len(mainTrace) >= 2
          /\ mainTrace[Len(mainTrace) - 1][1] = "throw"
          /\ mainTrace[Len(mainTrace) - 1][3] \in {"allowance", "submit", "receipt"}
    /\ lastStep = "MainTaskThrows" => Threw(mainTrace)

(* The same with the approval of task_swapTokens left out of the
   requirement that the failure be logged. *)
C12_ExceptSwapApproval ==
    /\ \A p \in 1..Len(mainTrace) :
          (mainTrace[p][1] = "receipt" /\ mainTrace[p][3] # "success")
          => /\ p < Len(mainTrace)
             /\ mainTrace[p][2] # "approve"
                => mainTrace[p + 1] = Ev("failed", mainTrace[p][2], "-")
             /\ (p + 1 = Len(mainTrace) => lastStep # "MainTaskThrows")
             /\ \A q \in (p + 1)..Len(mainTrace) :
                   mainTrace[q] # Ev("submit", mainTrace[p][2], "-")
    /\ Threw(mainTrace)
       => /\ Len(mainTrace) >= 2
          /\ mainTrace[Len(mainTrace) - 1][1] = "throw"
          /\ mainTrace[Len(mainTrace) - 1][3] \in {"allowance", "submit", "receipt"}
    /\ lastStep = "MainTaskThrows" => Threw(mainTrace)

(* C15: against a client that answers every call with a successful
   receipt, runTokenDeploy logs one success line for each invocation of
   task_createToken that has ended and no failure or error line; when it
   is done it has invoked task_createToken TOKEN_RUNS_PER_SESSION times and
   logged that many success lines. *)
C15_MockedRunsLogSuccess ==
    client = "mock"
    => /\ tokenLines.failure = 0
       /\ tokenLines.error = 0
       /\ tokenLines.success = tokenCalls - tokenInFlight
       /\ tokenPc = "done"
          => /\ tokenCalls = TOKEN_RUNS_PER_SESSION
             /\ tokenLines.success = TOKEN_RUNS_PER_SESSION

C15_Witness ==
    /\ client = "mock"
    /\ tokenPc = "done"
    /\ tokenLines.success = 3
    /\ sessions = 2

(* C16: in every task invocation of runMainTasks, each wait for a receipt
   is for a transaction submitted earlier in the same invocation, and each
   receipt is followed at once by the result line of its transaction,
   the success line if receipt.status is 'success' and the failure line
   otherwise. *)
C16_SubmitWaitLog ==
    \A p \in 1..Len(mainTrace) :
       /\ mainTrace[p][1] = "wait"
          => \E q \in 1..(p - 1) : mainTrace[q] = Ev("submit", mainTrace[p][2], "-")
       /\ mainTrace[p][1] = "receipt"
          => /\ p < Len(mainTrace)
             /\ mainTrace[p + 1] = Ev(IF mainTrace[p][3] = "success" THEN "ok" ELSE "failed",
                                      mainTrace[p][2], "-")

(* C17: task_claimAndBurn submits claim ORE, claim MLUNARI, approve ORE,
   burn ORE in this order, each after the receipt of the one before; an
   invocation that returned has submitted all four, whatever the status of
   their receipts; an invocation in which a client call of step k threw has
   submitted exactly the first k, and the exception has reached the catch
   of runMainTasks, which goes on with the pause. *)
C17_ClaimAndBurnOrder ==
    (mainPc \in {"task", "pause"} /\ tasks[mainTask] = "task_claimAndBurn")
    => LET order == << "claim ORE", "claim MLUNARI", "approve ORE", "burn ORE" >>
           sent == Submitted(mainTrace)
       IN  /\ Len(sent) <= Len(order)
           /\ \A n \in 1..Len(sent) : sent[n] = order[n]
           /\ \A p \in 1..Len(mainTrace) : \A n \in 2..Len(order) :
                 mainTrace[p] = Ev("submit", order[n], "-")
                 => \E q \in 1..(p - 1) :
                       /\ mainTrace[q][1] = "receipt"
                       /\ mainTrace[q][2] = order[n - 1]
           /\ (MainTaskEnded /\ ~Threw(mainTrace)) => Len(sent) = Len(order)
           /\ \A k \in 1..Len(order) :
                 (\E at \in {"submit", "receipt"} : Has(mainTrace, Ev("throw", order[k], at)))
                 => /\ Len(sent) = k
                    /\ Threw(mainTrace)
                    /\ mainPc = "pause"

(* burn ORE went out after a reverted approve ORE. *)
C17_Witness ==
    /\ mainPc = "pause"
    /\ tasks[mainTask] = "task_claimAndBurn"
    /\ Has(mainTrace, Ev("receipt", "approve ORE", "reverted"))
    /\ Has(mainTrace, Ev("ok", "burn ORE", "-"))

(* a client call of step 2 threw. *)
C17_ThrowWitness ==
    /\ mainPc = "pause"
    /\ tasks[mainTask] = "task_claimAndBurn"
    /\ Has(mainTrace, Ev("throw", "claim MLUNARI", "receipt"))

(* C18: in task_swapTokens nothing is submitted before the allowance has
   been read; the approval is submitted if and only if the allowance read
   is below the swap amount; the swap is submitted at most once, after the
   receipt of the approval (of any status) if an approval was submitted;
   an invocation that returned has submitted the swap exactly once. *)
C18_SwapAfterAllowance ==
    (mainPc \in {"task", "pause"} /\ tasks[mainTask] = "task_swapTokens")
    => LET sent == Submitted(mainTrace)
           approvals == {n \in 1..Len(sent) : sent[n] = "approve"}
           swaps == {n \in 1..Len(sent) : sent[n] = "swap"}
       IN  /\ mainTrace[1] = Ev("read", "allowance", "-")
           /\ allowance = NoValue => Len(sent) = 0
           /\ allowance # NoValue
              => (approvals # {} <=> allowance < amountIn)
           /\ Cardinality(approvals) <= 1
           /\ Cardinality(swaps) <= 1
           /\ \A p \in 1..Len(mainTrace) :
                 mainTrace[p] = Ev("submit", "swap", "-")
                 => /\ allowance # NoValue
                    /\ approvals # {}
                       => \E q \in 1..(p - 1) :
                             /\ mainTrace[q][1] = "receipt"
                             /\ mainTrace[q][2] = "approve"
           /\ (MainTaskEnded /\ ~Threw(mainTrace)) => Cardinality(swaps) = 1

(* the swap went out after a reverted approval. *)
C18_Witness ==
    /\ mainPc = "pause"
    /\ tasks[mainTask] = "task_swapTokens"
    /\ Has(mainTrace, Ev("receipt", "approve", "reverted"))
    /\ Has(mainTrace, Ev("receipt", "swap", "success"))

(* C13: a step of runTokenDeploy (its task settling, its interval timer
   firing) changes no variable of runMainTasks, and a step of runMainTasks
   changes no variable of runTokenDeploy; only the head of the master's
   loop, which calls both, sets both; and the client both use is never
   replaced. *)
C13_SubSchedulerFrame ==
    /\ [][ lastStep' \in {"TokenTaskReturns", "TokenTaskThrows", "TokenIntervalFires"}
           => UNCHANGED mainVars ]_vars
    /\ [][ lastStep' \in {"MainTaskReturns", "MainTaskThrows", "MainPauseFires", "MainIntervalFires"}
           => UNCHANGED tokenVars ]_vars
    /\ [][ (mainVars' # mainVars /\ tokenVars' # tokenVars)
           => (sessions' = sessions + 1 /\ lastStep' \in {"Boot", "DailyTimerFires"}) ]_vars
    /\ [][ client' = client ]_vars

(* task_createToken is invoked for run 2 while runMainTasks sleeps between
   its runs 1 and 2. *)
C13_Witness ==
    /\ lastStep = "TokenIntervalFires"
    /\ tokenRun = 2
    /\ tokenPc = "task"
    /\ mainPc = "interval"
    /\ mainRun = 1

(* C14: the restarted process keeps nothing of the killed one: no session,
   no counter, no timer; its scheduleDailyRuns() starts a session whose
   start time is the time of the restart, with both sub-schedulers at run 1
   and their first task; and its sub-schedulers end only after all 10 and 3
   runs. *)
C14_FreshAfterRestart ==
    /\ [][ lastStep' = "Restart"
           => /\ masterPc' = "boot" /\ mainPc' = "idle" /\ tokenPc' = "idle"
              /\ sessions' = 0 /\ mainRun' = 0 /\ tokenRun' = 0
              /\ tokenCalls' = 0 /\ \A k \in 1..5 : mainCalls'[k] = 0
              /\ masterTimer' = NoTimer /\ mainTimer' = NoTimer /\ tokenTimer' = NoTimer
              /\ now' = now ]_vars
    /\ [][ (restarted /\ masterPc = "boot" /\ masterPc' # "boot")
           => /\ sessionStartTime' = now /\ now' = now
              /\ sessions' = 1
              /\ mainPc' = "task" /\ mainRun' = 1 /\ mainTask' = 1
              /\ tokenPc' = "task" /\ tokenRun' = 1 ]_vars
    /\ [](restarted /\ mainPc = "done" => \A k \in 1..5 : mainCalls[k] = 10)
    /\ [](restarted /\ tokenPc = "done" => tokenCalls = 3)

(* the restarted process has completed a session. *)
C14_Witness ==
    /\ restarted
    /\ masterPc = "sleep"
    /\ sessions = 1
    /\ tokenCalls = 3

(* C19: every task invocation of runMainTasks that settles, by returning
   or by throwing, is followed by the 10-second pause; a run has had its
   five pauses when the interval sleep begins or the sub-scheduler is done;
   and the interval sleep begins only in the step in which the pause after
   the fifth task is over, in a run before the tenth. *)
C19_PauseAfterEveryTask ==
    /\ [][ lastStep' \in {"MainTaskReturns", "MainTaskThrows"}
           => /\ mainPc' = "pause"
              /\ mainTimer' = now' + 10000
              /\ mainPauses' = mainPauses + 1 ]_vars
    /\ [](mainPc \in {"pause", "interval", "done"} => mainPauses = mainTask)
    /\ [](mainPc = "task" => mainPauses = mainTask - 1)
    /\ [](mainPc \in {"interval", "done"} => mainPauses = 5)
    /\ [][ (mainPc' = "interval" /\ mainPc # "interval")
           => /\ mainPc = "pause"
              /\ mainTask = 5
              /\ now >= mainTimer
              /\ mainRun < 10 ]_vars
    /\ [][ (mainPc = "pause" /\ mainPc' # "pause") => now >= mainTimer ]_vars

(* the last task of the last run threw and is followed by the pause. *)
C19_Witness ==
    /\ lastStep = "MainTaskThrows"
    /\ mainPc = "pause"
    /\ mainRun = 10
    /\ mainTask = 5
    /\ mainPauses = 5

(* C20: at most one task invocation of runMainTasks and at most one of
   task_createToken are in progress at any time, each exactly while its
   sub-scheduler awaits its task, and none while the master scheduler is in
   its daily sleep. *)
C20_AtMostOnePerScheduler ==
    /\ mainInFlight \in {0, 1}
    /\ tokenInFlight \in {0, 1}
    /\ mainInFlight = 1 <=> mainPc = "task"
    /\ tokenInFlight = 1 <=> tokenPc = "task"
    /\ masterPc = "sleep" => (mainInFlight = 0 /\ tokenInFlight = 0)

(* two invocations in flight, one of each sub-scheduler. *)
C20_Witness ==
    /\ mainInFlight = 1
    /\ tokenInFlight = 1
    /\ mainRun = 3
    /\ tokenRun = 3

(* The variable is not set, or set to white space only. *)
Blank(v) == v = undefined \/ \A i \in 1..Len(v) : v[i] \in WhiteSpace

(* C21: when RPC_URL or PRIVATE_KEY is not set, or is empty once the white
   space around it is dropped, the process is stopped by the check of
   lol.js 15 with exit status 1, and then no client is constructed, no
   session is started and no task is invoked; otherwise the check lets the
   process go on, and a CHAIN_ID that is not set gives chain id 0 in the
   constant and in the clients built with it. *)
C21_MissingEnvExits ==
    proc \notin {"env", "check"}
    => /\ (Blank(env.RPC_URL) \/ Blank(env.PRIVATE_KEY))
          => /\ proc = "exited"
             /\ exitCode = 1
             /\ lastStep = "CheckEnv"
             /\ wallet = NoClient
             /\ masterPc = "boot"
             /\ sessions = 0
             /\ tokenCalls = 0
             /\ \A k \in 1..Len(tasks) : mainCalls[k] = 0
       /\ ~(Blank(env.RPC_URL) \/ Blank(env.PRIVATE_KEY))
          => /\ lastStep = "CheckEnv" => proc = "clients" /\ exitCode = NoValue
             /\ env.CHAIN_ID = undefined => CHAIN_ID = 0
             /\ proc = "loaded" => wallet = Clients /\ exitCode = NoValue

(* PRIVATE_KEY is set to white space only and the process has exited. *)
C21_Witness ==
    /\ env.RPC_URL = << " ", "7", " " >>
    /\ env.PRIVATE_KEY = << " ", " " >>
    /\ proc = "exited"
    /\ exitCode = 1

(* CHAIN_ID alone is not set and the first session has started. *)
C21_ChainIdWitness ==
    /\ env.RPC_URL = << " ", "7", " " >>
    /\ env.PRIVATE_KEY = << "7" >>
    /\ env.CHAIN_ID = undefined
    /\ proc = "loaded"
    /\ wallet.chain = 0
    /\ sessions = 1

====
